---- MODULE Spec2Model ----
(***************************************************************************)
(* Model of the mixer HTTP decoder filter, src/envoy/mixer/http_filter.cc. *)
(*                                                                         *)
(* One per-request Http::Mixer::Instance, the stream it filters (seen      *)
(* through decoder_callbacks_), the HttpControl collaborator that holds    *)
(* the DoneFunc of Check, and the dispatcher's queue of posted closures.   *)
(* The hooks decodeHeaders / decodeData / decodeTrailers / log and the     *)
(* reset-stream callback run on the dispatcher; the collaborator may call  *)
(* the DoneFunc inside Check or later from another thread.                 *)
(***************************************************************************)
EXTENDS Integers, Sequences, FiniteSets, TLC

\* ------------------------------------------------------------------ bounds
\* Number of body chunks the client sends in one request.
MaxChunks == 2

\* HttpCode is examined on the integers -MaxCode .. MaxCode.
MaxCode == 60

\* ------------------------------------------------- canonical status codes
\* ::google::protobuf::util::error::Code
OK == 0
CANCELLED == 1
UNKNOWN == 2
INVALID_ARGUMENT == 3
DEADLINE_EXCEEDED == 4
NOT_FOUND == 5
ALREADY_EXISTS == 6
PERMISSION_DENIED == 7
RESOURCE_EXHAUSTED == 8
FAILED_PRECONDITION == 9
ABORTED == 10
OUT_OF_RANGE == 11
UNIMPLEMENTED == 12
INTERNAL == 13
UNAVAILABLE == 14
DATA_LOSS == 15
UNAUTHENTICATED == 16

\* The canonical codes of the table of HttpCode.
CanonicalCodes == 0..16

\* Results the collaborator hands to the DoneFunc of Check in this model:
\* success, two failures with distinct HTTP codes, and UNKNOWN, whose HTTP
\* code coincides with the constructor default of check_status_code_.
CheckCodes == {OK, UNKNOWN, PERMISSION_DENIED, UNAVAILABLE}

\* HttpCode with the UNAUTHENTICATED case left out.
HttpCode_noUnauthenticated(code) ==
  CASE code = OK -> 200
    [] code = CANCELLED -> 499
    [] code = UNKNOWN -> 500
    [] code = INVALID_ARGUMENT -> 400
    [] code = DEADLINE_EXCEEDED -> 504
    [] code = NOT_FOUND -> 404
    [] code = ALREADY_EXISTS -> 409
    [] code = PERMISSION_DENIED -> 403
    [] code = RESOURCE_EXHAUSTED -> 429
    [] code = FAILED_PRECONDITION -> 400
    [] code = ABORTED -> 409
    [] code = OUT_OF_RANGE -> 400
    [] code = UNIMPLEMENTED -> 501
    [] code = INTERNAL -> 500
    [] code = UNAVAILABLE -> 503
    [] code = DATA_LOSS -> 500
    [] OTHER -> 500

\* Convert Status::code to HTTP code.
HttpCode(code) ==
  CASE code = OK -> 200
    [] code = CANCELLED -> 499
    [] code = UNKNOWN -> 500
    [] code = INVALID_ARGUMENT -> 400
    [] code = DEADLINE_EXCEEDED -> 504
    [] code = NOT_FOUND -> 404
    [] code = ALREADY_EXISTS -> 409
    [] code = PERMISSION_DENIED -> 403
    [] code = RESOURCE_EXHAUSTED -> 429
    [] code = FAILED_PRECONDITION -> 400
    [] code = ABORTED -> 409
    [] code = OUT_OF_RANGE -> 400
    [] code = UNIMPLEMENTED -> 501
    [] code = INTERNAL -> 500
    [] code = UNAVAILABLE -> 503
    [] code = DATA_LOSS -> 500
    [] code = UNAUTHENTICATED -> 401
    [] OTHER -> 500

\* ------------------------------------------------------------ route config
\* Values a switch can have in a route entry's opaque config; "absent" is a
\* key that find() does not find.
SwitchValues == {"absent", "on", "off"}

\* decoder_callbacks_->route(): no route, a route without entry, or a route
\* entry whose opaqueConfig() holds the two switches.
Routes ==
  [kind : {"null", "noEntry"}, mixer_control : {"absent"}, mixer_forward : {"absent"}]
    \cup [kind : {"entry"}, mixer_control : SwitchValues, mixer_forward : SwitchValues]

\* mixer control switch that is on by default: only "off" disables.
mixer_disabled_defaultOn(r) ==
  IF r.kind # "null"
    THEN IF r.kind = "entry"
           THEN IF r.mixer_control # "absent" /\ r.mixer_control = "off"
                  THEN TRUE
                  ELSE FALSE
           ELSE FALSE
    ELSE FALSE

\* mixer control switch (off by default)
mixer_disabled(r) ==
  IF r.kind # "null"
    THEN IF r.kind = "entry"
           THEN IF r.mixer_control # "absent" /\ r.mixer_control = "on"
                  THEN FALSE
                  ELSE TRUE
           ELSE TRUE
    ELSE TRUE

\* attribute forward switch that is off by default: only "on" enables.
forward_disabled_defaultOff(r) ==
  IF r.kind # "null"
    THEN IF r.kind = "entry"
           THEN IF r.mixer_forward # "absent" /\ r.mixer_forward = "on"
                  THEN FALSE
                  ELSE TRUE
           ELSE TRUE
    ELSE TRUE

\* attribute forward switch (on by default)
forward_disabled(r) ==
  IF r.kind # "null"
    THEN IF r.kind = "entry"
           THEN IF r.mixer_forward # "absent" /\ r.mixer_forward = "off"
                  THEN TRUE
                  ELSE FALSE
           ELSE FALSE
    ELSE FALSE

\* ------------------------------------------------------------ stream items
\* What the stream hands to the decode hooks: the request headers, the body
\* chunks (numbered in arrival order) and the trailers.
HeadersItem == << "headers", 0 >>
DataItem(n) == << "data", n >>
TrailersItem == << "trailers", 0 >>

\* ------------------------------------------------------------------- state
VARIABLES
  \* Config and route of the request
  route,               \* what decoder_callbacks_->route() resolves to
  forward_attributes,  \* TRUE iff config_->forward_attributes() is non-empty
  \* Instance
  alive,               \* FALSE once the Instance has been destroyed
  state_,              \* NotStarted, Calling, Complete, Responded
  initiating_call_,
  check_status_code_,
  mixer_disabled_,     \* not initialized by the constructor
  request_data_,       \* TRUE iff the shared_ptr is non-null
  \* stream behind decoder_callbacks_
  attrHeaders,         \* number of kIstioAttributeHeader headers added
  arrived,             \* items handed to the decode hooks, in order
  held,                \* items the filter manager holds back for this filter
  delivered,           \* items passed on to the next filter
  nContinue,           \* calls of decoder_callbacks_->continueDecoding()
  replies,             \* HTTP codes of Utility::sendLocalReply calls
  resetDone,           \* the reset-stream callbacks have run
  logged,              \* log() has been called
  retHeaders,          \* what decodeHeaders returned ("none" before)
  retData,             \* what the last decodeData returned
  retTrailers,         \* what decodeTrailers returned
  \* HttpControl collaborator and dispatcher
  checkCall,           \* "none", "pending" (DoneFunc held), "done" (invoked)
  checksIssued,        \* calls of http_control_->Check
  posted,              \* dispatcher queue: status codes of posted closures
  reports,             \* check_status_code arguments of Report calls
  reportsPending,      \* Report calls whose callback has not run yet
  \* observations of the run
  syncDone,            \* the DoneFunc was invoked before Check returned
  stateAtCheckReturn,  \* state_ when http_control_->Check returned
  completedIn,         \* state_ at entry of completeCheck ("none" before)
  completedCode,       \* canonical code completeCheck was called with
  resetInCalling,      \* the reset callback ran while state_ was Calling
  resetAfterDone,      \* the stream was reset after completeCheck had run
  completedAtLog,      \* completedIn as it was when log() ran
  uaf,                 \* a closure touched the Instance after destruction
  checkHeaders,        \* attribute headers in the HeaderMap given to Check
  \* HttpCode
  httpCodeArg,         \* the argument of a call of HttpCode
  httpCodeRet          \* what that call returned

vars ==
  << route, forward_attributes, alive, state_, initiating_call_,
     check_status_code_, mixer_disabled_, request_data_, attrHeaders, arrived,
     held, delivered, nContinue, replies, resetDone, logged, retHeaders,
     retData, retTrailers, checkCall, checksIssued, posted, reports,
     reportsPending, syncDone, stateAtCheckReturn, completedIn, completedCode,
     resetInCalling, resetAfterDone, completedAtLog, uaf, checkHeaders,
     httpCodeArg, httpCodeRet >>

configVars == << route, forward_attributes >>

httpVars == << httpCodeArg, httpCodeRet >>

obsVars ==
  << syncDone, stateAtCheckReturn, completedIn, completedCode, resetInCalling,
     resetAfterDone, completedAtLog, uaf, checkHeaders >>

\* The part of the Instance and of its stream that completeCheck works on.
Self ==
  [ state_ |-> state_,
    initiating_call_ |-> initiating_call_,
    check_status_code_ |-> check_status_code_,
    held |-> held,
    delivered |-> delivered,
    nContinue |-> nContinue,
    replies |-> replies ]

\* decoder_callbacks_->continueDecoding(): the filter manager passes what it
\* held back for this filter on to the next filter, in order.
continueDecoding(s) ==
  [s EXCEPT !.delivered = s.delivered \o s.held,
            !.held = << >>,
            !.nContinue = s.nContinue + 1]

\* Utility::sendLocalReply(*decoder_callbacks_, Code(code), body)
sendLocalReply(s, code) ==
  [s EXCEPT !.replies = Append(s.replies, code)]

\* completeCheck without the return that ends the failure branch: after the
\* local reply it goes on to state_ = Complete and continueDecoding().
completeCheck_noReturn(s, code) ==
  LET f == IF code # OK /\ s.state_ # "Responded"
             THEN sendLocalReply(
                    [s EXCEPT !.state_ = "Responded",
                              !.check_status_code_ = HttpCode(code)],
                    HttpCode(code))
             ELSE s
      t == [f EXCEPT !.state_ = "Complete"]
  IN  IF ~s.initiating_call_ THEN continueDecoding(t) ELSE t

\* completeCheck whose failure branch does not test state_ != Responded.
completeCheck_noRespondedGuard(s, code) ==
  IF code # OK
    THEN sendLocalReply(
           [s EXCEPT !.state_ = "Responded",
                     !.check_status_code_ = HttpCode(code)],
           HttpCode(code))
    ELSE LET t == [s EXCEPT !.state_ = "Complete"]
         IN  IF ~s.initiating_call_ THEN continueDecoding(t) ELSE t

\* Instance::completeCheck(status), status.error_code() = code
completeCheck(s, code) ==
  IF code # OK /\ s.state_ # "Responded"
    THEN sendLocalReply(
           [s EXCEPT !.state_ = "Responded",
                     !.check_status_code_ = HttpCode(code)],
           HttpCode(code))
    ELSE LET t == [s EXCEPT !.state_ = "Complete"]
         IN  IF ~s.initiating_call_ THEN continueDecoding(t) ELSE t

\* wrapper that does not jump threads: the returned DoneFunc calls on_done,
\* that is completeCheck, where it is invoked.
wrapper_inline(s, queue, code) ==
  [self |-> completeCheck(s, code), queue |-> queue]

\* wrapper whose DoneFunc drops the completion instead of posting it.
wrapper_noPost(s, queue, code) ==
  [self |-> s, queue |-> queue]

\* Instance::wrapper(on_done) applied to a status: the returned DoneFunc
\* posts a closure to the dispatcher and touches nothing else.
wrapper(s, queue, code) ==
  [self |-> s, queue |-> Append(queue, code)]


\* Instance::Instance and setDecoderFilterCallbacks have run: the filter is
\* installed in a stream whose route and config are fixed for the request.
Init ==
  /\ route \in Routes
  /\ forward_attributes \in BOOLEAN
  /\ alive = TRUE
  /\ state_ = "NotStarted"
  /\ initiating_call_ = FALSE
  /\ check_status_code_ = HttpCode(UNKNOWN)
  /\ mixer_disabled_ \in BOOLEAN   \* uninitialized member: any value
  /\ request_data_ = FALSE
  /\ attrHeaders = 0
  /\ arrived = << >>
  /\ held = << >>
  /\ delivered = << >>
  /\ nContinue = 0
  /\ replies = << >>
  /\ resetDone = FALSE
  /\ logged = FALSE
  /\ retHeaders = "none"
  /\ retData = "none"
  /\ retTrailers = "none"
  /\ checkCall = "none"
  /\ checksIssued = 0
  /\ posted = << >>
  /\ reports = << >>
  /\ reportsPending = 0
  /\ syncDone = FALSE
  /\ stateAtCheckReturn = "none"
  /\ completedIn = "none"
  /\ completedCode = -1
  /\ resetInCalling = FALSE
  /\ resetAfterDone = FALSE
  /\ completedAtLog = "none"
  /\ uaf = FALSE
  /\ checkHeaders = -1
  \* the constructor's HttpCode(StatusCode::UNKNOWN)
  /\ httpCodeArg = UNKNOWN
  /\ httpCodeRet = HttpCode(UNKNOWN)

\* The stream still hands request events to the filter: the Instance exists,
\* the stream has not been reset and its access log has not been written.
StreamOpen == alive /\ ~resetDone /\ ~logged

\* Instance::decodeHeaders.  The collaborator either invokes the DoneFunc
\* before Check returns (sync) or keeps it for later.
decodeHeaders ==
  /\ StreamOpen
  /\ retHeaders = "none"
  /\ arrived' = Append(arrived, HeadersItem)
  /\ attrHeaders' =
       IF forward_attributes /\ ~forward_disabled(route)
         THEN attrHeaders + 1 ELSE attrHeaders
  /\ mixer_disabled_' = mixer_disabled(route)
  /\ IF mixer_disabled(route)
       THEN /\ retHeaders' = "Continue"
            /\ delivered' = Append(delivered, HeadersItem)
            /\ UNCHANGED << state_, initiating_call_, check_status_code_,
                            request_data_, held, nContinue, replies, checkCall,
                            checksIssued, posted, syncDone, stateAtCheckReturn,
                            checkHeaders >>
       ELSE \E sync \in BOOLEAN, code \in CheckCodes :
              LET s1 == [Self EXCEPT !.state_ = "Calling",
                                     !.initiating_call_ = TRUE]
                  \* http_control_->Check(..., wrapper(...))
                  r  == IF sync THEN wrapper(s1, posted, code)
                                ELSE [self |-> s1, queue |-> posted]
                  s2 == [r.self EXCEPT !.initiating_call_ = FALSE]
                  ret == IF s2.state_ = "Complete"
                           THEN "Continue" ELSE "StopIteration"
              IN  /\ sync \/ code = OK   \* code is unused when not sync
                  /\ request_data_' = TRUE
                  /\ checksIssued' = checksIssued + 1
                  /\ checkHeaders' = attrHeaders'
                  /\ checkCall' = IF sync THEN "done" ELSE "pending"
                  /\ syncDone' = sync
                  /\ posted' = r.queue
                  /\ stateAtCheckReturn' = r.self.state_
                  /\ state_' = s2.state_
                  /\ initiating_call_' = s2.initiating_call_
                  /\ check_status_code_' = s2.check_status_code_
                  /\ nContinue' = s2.nContinue
                  /\ replies' = s2.replies
                  /\ retHeaders' = ret
                  /\ IF ret = "Continue"
                       THEN /\ delivered' = Append(s2.delivered, HeadersItem)
                            /\ held' = s2.held
                       ELSE /\ delivered' = s2.delivered
                            /\ held' = Append(s2.held, HeadersItem)
  /\ UNCHANGED << configVars, httpVars, alive, resetDone, logged, retData, retTrailers,
                  reports, reportsPending, completedIn, completedCode,
                  resetInCalling, resetAfterDone, completedAtLog, uaf >>

\* decodeData that holds the body back until the check has succeeded
\* (state_ != Complete instead of state_ == Calling).
decodeDataRet_untilComplete(disabled, state) ==
  IF disabled
    THEN "Continue"
    ELSE IF state # "Complete" THEN "StopIterationAndBuffer" ELSE "Continue"

\* decodeData that never holds the body back.
decodeDataRet_noBuffer(disabled, state) == "Continue"

\* What Instance::decodeData returns.
decodeDataRet(disabled, state) ==
  IF disabled
    THEN "Continue"
    ELSE IF state = "Calling" THEN "StopIterationAndBuffer" ELSE "Continue"

\* What Instance::decodeTrailers returns.
decodeTrailersRet(disabled, state) ==
  IF disabled
    THEN "Continue"
    ELSE IF state = "Calling" THEN "StopIteration" ELSE "Continue"

\* Number of body chunks that have arrived so far.
NumChunks == Cardinality({i \in 1..Len(arrived) : arrived[i][1] = "data"})

\* Instance::decodeData for the next body chunk.
decodeData ==
  /\ StreamOpen
  /\ retHeaders # "none"
  /\ retTrailers = "none"
  /\ NumChunks < MaxChunks
  /\ LET chunk == DataItem(NumChunks + 1)
         ret == decodeDataRet(mixer_disabled_, state_)
     IN  /\ arrived' = Append(arrived, chunk)
         /\ retData' = ret
         /\ IF ret = "Continue"
              THEN /\ delivered' = Append(delivered, chunk)
                   /\ held' = held
              ELSE /\ delivered' = delivered
                   /\ held' = Append(held, chunk)
  /\ UNCHANGED << configVars, httpVars, alive, state_, initiating_call_,
                  check_status_code_, mixer_disabled_, request_data_,
                  attrHeaders, nContinue, replies, resetDone, logged,
                  retHeaders, retTrailers, checkCall, checksIssued, posted,
                  reports, reportsPending, obsVars >>

\* Instance::decodeTrailers.
decodeTrailers ==
  /\ StreamOpen
  /\ retHeaders # "none"
  /\ retTrailers = "none"
  /\ LET ret == decodeTrailersRet(mixer_disabled_, state_)
     IN  /\ arrived' = Append(arrived, TrailersItem)
         /\ retTrailers' = ret
         /\ IF ret = "Continue"
              THEN /\ delivered' = Append(delivered, TrailersItem)
                   /\ held' = held
              ELSE /\ delivered' = delivered
                   /\ held' = Append(held, TrailersItem)
  /\ UNCHANGED << configVars, httpVars, alive, state_, initiating_call_,
                  check_status_code_, mixer_disabled_, request_data_,
                  attrHeaders, nContinue, replies, resetDone, logged,
                  retHeaders, retData, checkCall, checksIssued, posted,
                  reports, reportsPending, obsVars >>

\* The callback given to addResetStreamCallback in
\* setDecoderFilterCallbacks: [this]() { state_ = Responded; }
resetStream ==
  /\ StreamOpen
  /\ retHeaders # "none"   \* the filter chain exists once headers arrived
  /\ state_' = "Responded"
  /\ resetDone' = TRUE
  /\ resetInCalling' = (state_ = "Calling")
  /\ resetAfterDone' = (completedIn # "none")
  /\ UNCHANGED << configVars, httpVars, alive, initiating_call_, check_status_code_,
                  mixer_disabled_, request_data_, attrHeaders, arrived, held,
                  delivered, nContinue, replies, logged, retHeaders, retData,
                  retTrailers, checkCall, checksIssued, posted, reports,
                  reportsPending, syncDone, stateAtCheckReturn, completedIn,
                  completedCode, completedAtLog, uaf, checkHeaders >>

\* The collaborator invokes the DoneFunc of Check after Check has returned,
\* on a thread of its own: the closure built by wrapper runs.
checkDone ==
  /\ checkCall = "pending"
  /\ \E code \in CheckCodes :
       LET r == wrapper(Self, posted, code)
       IN  /\ posted' = r.queue
           /\ state_' = r.self.state_
           /\ check_status_code_' = r.self.check_status_code_
           /\ held' = r.self.held
           /\ delivered' = r.self.delivered
           /\ nContinue' = r.self.nContinue
           /\ replies' = r.self.replies
  /\ checkCall' = "done"
  /\ UNCHANGED << configVars, httpVars, alive, initiating_call_, mixer_disabled_,
                  request_data_, attrHeaders, arrived, resetDone, logged,
                  retHeaders, retData, retTrailers, checksIssued, reports,
                  reportsPending, obsVars >>

\* The dispatcher runs the posted closure [status, on_done]() {
\* on_done(status); }, and on_done is [this](status) { completeCheck(status); }.
\* this is a raw pointer: when the Instance is gone the call works on freed
\* memory, and what it then reads and which stream call it makes is open.
runPosted ==
  /\ posted # << >>
  /\ posted' = Tail(posted)
  /\ IF alive
       THEN LET s == completeCheck(Self, Head(posted))
            IN  /\ state_' = s.state_
                /\ check_status_code_' = s.check_status_code_
                /\ held' = s.held
                /\ delivered' = s.delivered
                /\ nContinue' = s.nContinue
                /\ replies' = s.replies
                /\ completedIn' = state_
                /\ completedCode' = Head(posted)
                /\ uaf' = uaf
       ELSE /\ uaf' = TRUE
            /\ \E st \in {"NotStarted", "Calling", "Complete", "Responded"},
                  ic \in BOOLEAN :
                 LET s == completeCheck([Self EXCEPT !.state_ = st,
                                                     !.initiating_call_ = ic],
                                        Head(posted))
                 IN  /\ state_' = s.state_
                     /\ check_status_code_' = s.check_status_code_
                     /\ held' = s.held
                     /\ delivered' = s.delivered
                     /\ nContinue' = s.nContinue
                     /\ replies' = s.replies
            /\ UNCHANGED << completedIn, completedCode >>
  /\ UNCHANGED << configVars, httpVars, alive, initiating_call_, mixer_disabled_,
                  request_data_, attrHeaders, arrived, resetDone, logged,
                  retHeaders, retData, retTrailers, checkCall, checksIssued,
                  reports, reportsPending, syncDone, stateAtCheckReturn,
                  resetInCalling, resetAfterDone, completedAtLog,
                  checkHeaders >>

\* The stream is over: it was reset, the filter answered it with a local
\* reply, or the request went on to the next filter and was answered there.
StreamEnded == resetDone \/ replies # << >> \/ delivered # << >>

\* log without the test of request_data_: it always calls Report.
log_noNullCheck ==
  /\ alive
  /\ ~logged
  /\ StreamEnded
  /\ logged' = TRUE
  /\ completedAtLog' = completedIn
  /\ reports' = Append(reports, check_status_code_)
  /\ reportsPending' = reportsPending + 1
  /\ UNCHANGED << configVars, httpVars, alive, state_, initiating_call_,
                  check_status_code_, mixer_disabled_, request_data_,
                  attrHeaders, arrived, held, delivered, nContinue, replies,
                  resetDone, retHeaders, retData, retTrailers, checkCall,
                  checksIssued, posted, syncDone, stateAtCheckReturn,
                  completedIn, completedCode, resetInCalling, resetAfterDone,
                  uaf, checkHeaders >>

\* Instance::log, called once when the stream ends.
log ==
  /\ alive
  /\ ~logged
  /\ StreamEnded
  /\ logged' = TRUE
  /\ completedAtLog' = completedIn
  /\ IF ~request_data_
       THEN UNCHANGED << reports, reportsPending >>
       ELSE /\ reports' = Append(reports, check_status_code_)
            /\ reportsPending' = reportsPending + 1
  /\ UNCHANGED << configVars, httpVars, alive, state_, initiating_call_,
                  check_status_code_, mixer_disabled_, request_data_,
                  attrHeaders, arrived, held, delivered, nContinue, replies,
                  resetDone, retHeaders, retData, retTrailers, checkCall,
                  checksIssued, posted, syncDone, stateAtCheckReturn,
                  completedIn, completedCode, resetInCalling, resetAfterDone,
                  uaf, checkHeaders >>

\* A Report callback that keeps the status of a failed report in
\* check_status_code_.
reportDone_recordsStatus ==
  /\ reportsPending > 0
  /\ \E code \in CheckCodes :
       /\ reportsPending' = reportsPending - 1
       /\ check_status_code_' =
            IF code # OK THEN HttpCode(code) ELSE check_status_code_
  /\ UNCHANGED << configVars, httpVars, alive, state_, initiating_call_,
                  mixer_disabled_, request_data_,
                  attrHeaders, arrived, held, delivered, nContinue, replies,
                  resetDone, logged, retHeaders, retData, retTrailers,
                  checkCall, checksIssued, posted, reports, obsVars >>

\* The callback given to Report: it only writes to the static logger.
reportDone ==
  /\ reportsPending > 0
  /\ \E code \in CheckCodes : reportsPending' = reportsPending - 1
  /\ UNCHANGED << configVars, httpVars, alive, state_, initiating_call_,
                  check_status_code_, mixer_disabled_, request_data_,
                  attrHeaders, arrived, held, delivered, nContinue, replies,
                  resetDone, logged, retHeaders, retData, retTrailers,
                  checkCall, checksIssued, posted, reports, obsVars >>

\* The stream ends and drops its two shared_ptr references to the Instance
\* (filter and access log handler): the Instance is destroyed.
destroy ==
  /\ alive
  /\ logged
  /\ alive' = FALSE
  /\ UNCHANGED << configVars, httpVars, state_, initiating_call_, check_status_code_,
                  mixer_disabled_, request_data_, attrHeaders, arrived, held,
                  delivered, nContinue, replies, resetDone, logged, retHeaders,
                  retData, retTrailers, checkCall, checksIssued, posted,
                  reports, reportsPending, obsVars >>

Next ==
  \/ decodeHeaders
  \/ decodeData
  \/ decodeTrailers
  \/ resetStream
  \/ checkDone
  \/ runPosted
  \/ log
  \/ reportDone
  \/ destroy

Spec == Init /\ [][Next]_vars

\* The collaborator invokes the DoneFunc of every Check once, and the
\* dispatcher runs every closure posted to it.
LiveSpec == Spec /\ WF_vars(checkDone) /\ WF_vars(runPosted)

\* ----------------------------------------------------------------- HttpCode
\* The integers HttpCode is called with.
CodeInputs == (0 - MaxCode) .. MaxCode

\* A call of HttpCode.
callHttpCode ==
  /\ \E code \in CodeInputs :
       /\ httpCodeArg' = code
       /\ httpCodeRet' = HttpCode(code)
  /\ UNCHANGED << configVars, alive, state_, initiating_call_,
                  check_status_code_, mixer_disabled_, request_data_,
                  attrHeaders, arrived, held, delivered, nContinue, replies,
                  resetDone, logged, retHeaders, retData, retTrailers,
                  checkCall, checksIssued, posted, reports, reportsPending,
                  obsVars >>

NextHttpCode == callHttpCode

SpecHttpCode == Init /\ [][NextHttpCode]_vars


\* ---------------------------------------------------------------- helpers
\* The check was issued and completeCheck has not run for it yet.
CheckOutstanding == checksIssued > 0 /\ completedIn = "none"

\* The last step was a call of the hook that received an item of this kind.
HookCalled(kind) ==
  /\ Len(arrived') = Len(arrived) + 1
  /\ arrived'[Len(arrived')][1] = kind

\* The status the DoneFunc was invoked with inside Check was success.
SyncSuccess ==
  /\ syncDone
  /\ \/ posted # << >> /\ Head(posted) = OK
     \/ completedCode = OK

Range(q) == {q[i] : i \in 1..Len(q)}

\* Position of an item in the arrival order.
ArrivalIndex(x) == CHOOSE i \in 1..Len(arrived) : arrived[i] = x

\* q holds items of the request, each once, in the order they arrived.
InArrivalOrder(q) ==
  /\ Range(q) \subseteq Range(arrived)
  /\ \A i, j \in 1..Len(q) :
       i < j => ArrivalIndex(q[i]) < ArrivalIndex(q[j])

\* ------------------------------------------------------------------ claims

\* C1: when the reset callback ran while the check was outstanding (state_ ==
\* Calling) and completeCheck processed the completion afterwards,
\* completeCheck made no stream call: neither continueDecoding() nor
\* sendLocalReply().
C1_LateCompletionIsInert ==
  (resetInCalling /\ completedIn # "none") =>
    (nContinue = 0 /\ replies = << >>)

\* C2: every change of state_ is NotStarted->Calling, Calling->Complete or
\* Calling->Responded; Responded never changes again and is entered only
\* from Calling.
C2_OnlyForwardTransitions ==
  [][ (alive /\ state_' # state_) =>
        << state_, state_' >> \in { << "NotStarted", "Calling" >>,
                                    << "Calling", "Complete" >>,
                                    << "Calling", "Responded" >> } ]_vars

\* C3: the closure posted for the check completion never reads or writes the
\* fields of an Instance that has been destroyed.
C3_NoUseAfterDestroy == uaf = FALSE

\* C4: once completeCheck has processed a failed check with canonical code c
\* while state_ was Calling, state_ is Responded, exactly one local reply
\* with status HttpCode(c) has been sent and continueDecoding() has not been
\* called, then and at any later time.
C4_FailedCheckResponds ==
  (completedIn = "Calling" /\ completedCode # OK) =>
    /\ state_ = "Responded"
    /\ replies = << HttpCode(completedCode) >>
    /\ nContinue = 0

\* A permission-denied check was processed, after having completed inside
\* the Check call, and was answered with 403.
C4_Witness ==
  /\ completedIn = "Calling"
  /\ completedCode = PERMISSION_DENIED
  /\ syncDone
  /\ replies = << 403 >>
  /\ logged

\* C5: when log() issues a Report after completeCheck processed canonical
\* code c in state Calling, the status code given to Report is HttpCode(c):
\* 403 for permission-denied, 200 for a successful check.
C5_ReportCarriesDecision ==
  (reports # << >> /\ completedAtLog = "Calling") =>
    reports[1] = HttpCode(completedCode)

\* C6: when the DoneFunc is invoked with success after Check has returned
\* and no reset came in between, decodeHeaders has returned StopIteration,
\* continueDecoding() has been called exactly once, by completeCheck, and
\* state_ is Complete from then on.
C6_AsyncSuccessResumesOnce ==
  (~syncDone /\ completedIn = "Calling" /\ completedCode = OK) =>
    /\ retHeaders = "StopIteration"
    /\ nContinue = 1
    /\ state_ = "Complete"

\* C7: when the DoneFunc is invoked with success before Check returns,
\* state_ is Complete when Check returns, decodeHeaders returns Continue and
\* continueDecoding() is never called.
C7_SyncSuccessContinues ==
  SyncSuccess =>
    /\ stateAtCheckReturn = "Complete"
    /\ retHeaders = "Continue"
    /\ nContinue = 0

\* C8: when mixer_disabled() resolved true in decodeHeaders, the three decode
\* hooks have returned Continue, Check has not been called, request_data_ is
\* null and log() has issued no Report.
C8_DisabledIsInert ==
  (retHeaders # "none" /\ mixer_disabled_) =>
    /\ retHeaders = "Continue"
    /\ retData \in {"none", "Continue"}
    /\ retTrailers \in {"none", "Continue"}
    /\ checksIssued = 0
    /\ checkCall = "none"
    /\ ~request_data_
    /\ reports = << >>

\* A request with policy control disabled went through headers, body,
\* trailers and log.
C8_Witness ==
  /\ mixer_disabled_
  /\ retHeaders = "Continue"
  /\ retData = "Continue"
  /\ retTrailers = "Continue"
  /\ logged
  /\ reports = << >>

\* C9: with policy control enabled, decodeData returns StopIterationAndBuffer
\* and decodeTrailers returns StopIteration exactly when the check issued for
\* the request has not had its completion processed, which is when state_ is
\* Calling, and both return Continue otherwise; decodeHeaders returns
\* StopIteration whenever the check is still outstanding when it returns.
C9_SuspendedExactlyWhileCalling ==
  [][ /\ (HookCalled("data") /\ ~mixer_disabled_) =>
           /\ (state_ = "Calling") <=> CheckOutstanding
           /\ retData' = IF CheckOutstanding
                           THEN "StopIterationAndBuffer" ELSE "Continue"
      /\ (HookCalled("trailers") /\ ~mixer_disabled_) =>
           /\ (state_ = "Calling") <=> CheckOutstanding
           /\ retTrailers' = IF CheckOutstanding
                               THEN "StopIteration" ELSE "Continue"
      /\ (HookCalled("headers") /\ ~mixer_disabled_' /\ CheckOutstanding') =>
           retHeaders' = "StopIteration" ]_vars

\* A body chunk was held back while the check was outstanding and the
\* trailers passed once the check had succeeded and the stream was resumed.
C9_Witness ==
  /\ ~mixer_disabled_
  /\ retHeaders = "StopIteration"
  /\ retData = "StopIterationAndBuffer"
  /\ retTrailers = "Continue"
  /\ state_ = "Complete"
  /\ nContinue = 1

\* C10: what is delivered downstream is in arrival order; nothing that
\* arrived while the check was outstanding is delivered before the resume;
\* once continueDecoding() has been called, everything held back has been
\* forwarded, in arrival order and ahead of the later chunks, and nothing
\* has been dropped.
C10_OrderPreserved ==
  /\ InArrivalOrder(delivered)
  /\ InArrivalOrder(held)
  /\ Range(delivered) \cap Range(held) = {}
  /\ (alive /\ retHeaders # "none" /\ ~mixer_disabled_ /\ state_ = "Calling") =>
       (delivered = << >> /\ held = arrived)
  /\ nContinue > 0 => (held = << >> /\ delivered = arrived)

\* Headers and a chunk were held back, the check succeeded, and a later
\* chunk and the trailers followed them downstream.
C10_Witness ==
  /\ nContinue = 1
  /\ retData = "Continue"
  /\ retTrailers = "Continue"
  /\ delivered = << HeadersItem, DataItem(1), DataItem(2), TrailersItem >>
  /\ completedIn = "Calling"


\* C11: with the DoneFunc of Check invoked once, over every interleaving of
\* check completion and stream reset the filter makes at most one
\* terminating or resuming stream call: at most one sendLocalReply, at most
\* one continueDecoding, and never both.
C11_AtMostOneStreamAction ==
  /\ Len(replies) <= 1
  /\ nContinue <= 1
  /\ Len(replies) + nContinue <= 1

\* The stream was reset while the check was outstanding and the completion
\* was processed afterwards.
C11_Witness ==
  /\ resetInCalling
  /\ completedIn = "Responded"
  /\ Len(replies) + nContinue = 1

\* C12: wherever the collaborator invokes the DoneFunc, inside Check on the
\* dispatcher or later on a thread of its own, that invocation leaves state_,
\* check_status_code_ and the stream alone; what completeCheck does to them
\* happens only when the dispatcher runs a posted closure.
C12_CompletionRunsOnDispatcher ==
  [][ /\ (checkCall # "done" /\ checkCall' = "done") =>
           /\ state_' = IF checkCall = "none" THEN "Calling" ELSE state_
           /\ check_status_code_' = check_status_code_
           /\ nContinue' = nContinue
           /\ replies' = replies
           /\ delivered' = delivered
           /\ Len(posted') = Len(posted) + 1
      /\ (\/ check_status_code_' # check_status_code_
          \/ nContinue' # nContinue
          \/ replies' # replies) =>
           (posted # << >> /\ posted' = Tail(posted)) ]_vars

\* The DoneFunc was invoked inside Check and completeCheck ran afterwards,
\* from the dispatcher's queue.
C12_Witness ==
  /\ syncDone
  /\ stateAtCheckReturn = "Calling"
  /\ completedIn = "Calling"
  /\ posted = << >>

\* C13: the completion of a Report call, whatever its status, leaves
\* state_, check_status_code_, request_data_ and the stream unchanged: no
\* local reply, no continueDecoding, no further Report, and no access to the
\* Instance (none to a destroyed one either).
C13_ReportCompletionIsInert ==
  [][ reportsPending' < reportsPending =>
        UNCHANGED << state_, initiating_call_, check_status_code_,
                     mixer_disabled_, request_data_, arrived, held, delivered,
                     nContinue, replies, reports, posted, checkCall,
                     checksIssued, uaf >> ]_vars

\* The callback of the Report ran after the Instance had been destroyed.
C13_Witness ==
  /\ reports # << >>
  /\ reportsPending = 0
  /\ ~alive

\* The forwarded-attribute blob is non-empty and the route's forward switch
\* is not the literal "off".
ForwardingOn ==
  /\ forward_attributes
  /\ ~(route.kind = "entry" /\ route.mixer_forward = "off")

\* C14: decodeHeaders adds the forwarding header exactly once if the
\* forwarded-attribute blob is non-empty and the forward switch is not "off"
\* (no route, no entry and any other value count as enabled), and not at all
\* otherwise, whether or not policy control is enabled; the header is in the
\* headers when Check is called.
C14_ForwardHeaderOnce ==
  /\ attrHeaders = IF retHeaders # "none" /\ ForwardingOn THEN 1 ELSE 0
  /\ checksIssued > 0 => checkHeaders = attrHeaders

\* Check was called with the forwarding header in place.
C14_Witness ==
  /\ ForwardingOn
  /\ route.mixer_forward = "on"
  /\ attrHeaders = 1
  /\ checksIssued = 1
  /\ checkHeaders = 1

\* The route exists, has an entry, and its opaque config maps the control
\* key to "on".
ControlOn == route.kind = "entry" /\ route.mixer_control = "on"

\* C15: decodeHeaders issues a Check and moves state_ to Calling if and only
\* if the route exists, has an entry and maps the control key to "on";
\* otherwise policy control is disabled, and what decodeHeaders resolved is
\* what decodeData and decodeTrailers use for the rest of the request.
C15_CheckIffControlOn ==
  /\ retHeaders = "none" => checksIssued = 0
  /\ retHeaders # "none" =>
       /\ checksIssued = IF ControlOn THEN 1 ELSE 0
       /\ (stateAtCheckReturn = "Calling") <=> ControlOn
       /\ mixer_disabled_ <=> ~ControlOn
       /\ ~ControlOn => /\ retData \in {"none", "Continue"}
                        /\ retTrailers \in {"none", "Continue"}

\* A request with the control key "on" was checked and went through body
\* and trailers.
C15_Witness ==
  /\ ControlOn
  /\ checksIssued = 1
  /\ ~mixer_disabled_
  /\ retData # "none"
  /\ retTrailers # "none"

\* The fixed table of the 17 canonical codes, OK first.
CodeTable ==
  << 200, 499, 500, 400, 504, 404, 409, 403, 429,
     400, 409, 400, 501, 500, 503, 500, 401 >>

\* C16: HttpCode returns the value of the fixed table for each of the 17
\* canonical codes and 500 for every other integer.
C16_HttpCodeTable ==
  httpCodeRet = IF httpCodeArg \in 0..16
                  THEN CodeTable[httpCodeArg + 1]
                  ELSE 500

\* HttpCode was called with the first integer beyond the table.
C16_Witness ==
  /\ httpCodeArg = UNAUTHENTICATED + 1
  /\ httpCodeRet = 500

\* C17: once state_ is Responded, no later decodeHeaders, decodeData or
\* decodeTrailers call returns Continue and forwards data downstream.
C17_RespondedNeverProceeds ==
  [][ state_ = "Responded" =>
        /\ HookCalled("headers") =>
             (retHeaders' # "Continue" /\ delivered' = delivered)
        /\ HookCalled("data") =>
             (retData' # "Continue" /\ delivered' = delivered)
        /\ HookCalled("trailers") =>
             (retTrailers' # "Continue" /\ delivered' = delivered) ]_vars

\* C18: when policy control was resolved disabled at decodeHeaders, state_
\* is NotStarted for the rest of the request, through decodeData,
\* decodeTrailers, stream reset and log.
C18_DisabledStaysNotStarted ==
  (retHeaders # "none" /\ mixer_disabled_) => state_ = "NotStarted"

\* C19: after a stream reset while the check was outstanding, a check
\* completion processed later, whatever its result, leaves
\* check_status_code_ at the constructor default HttpCode(UNKNOWN) = 500,
\* and that is what log() gives to Report.
C19_ResetKeepsStatusCode ==
  resetInCalling =>
    /\ alive => check_status_code_ = 500
    /\ reports # << >> => reports = << 500 >>

\* A permission-denied completion was processed after the reset, and log()
\* reported afterwards.
C19_Witness ==
  /\ resetInCalling
  /\ completedIn = "Responded"
  /\ completedCode = PERMISSION_DENIED
  /\ completedAtLog = "Responded"
  /\ reports = << 500 >>

\* C20: when the collaborator invokes the DoneFunc, the dispatcher runs what
\* is posted to it and the Instance stays alive, a request that is in state
\* Calling eventually leaves it.
C20_CallingEnds ==
  (alive /\ state_ = "Calling") ~> (state_ # "Calling" \/ ~alive)

\* A suspended request, with body held back, was resumed by a completion
\* that came after Check had returned.
C20_Witness ==
  /\ ~syncDone
  /\ completedIn = "Calling"
  /\ state_ = "Complete"
  /\ nContinue = 1
  /\ retData = "StopIterationAndBuffer"
  /\ held = << >>

====
